---------------------------- MODULE Spec2Model ----------------------------
(***************************************************************************)
(* Model of babymonitor.go: the capture loop of startBabymonitor, the      *)
(* per-connection handler of streamHandler, Client.writeDataClient, the    *)
(* level trigger (readConfig, processLevelTrigger, checkLevels) and the    *)
(* requests of callAction.                                                 *)
(*                                                                         *)
(* Goroutines are processes with a program counter: the capture loop       *)
(* (pcLoop), one connection handler per request (pcH), and the checkLevels *)
(* goroutines (evalPc); the callAction goroutines are counted per action.  *)
(* Channels are counted buffers, mutexes record their holder.  The Go map  *)
(* clientRequest is the set of its keys.                                   *)
(*                                                                         *)
(* Three specifications share the actions of the capture loop:             *)
(*   Spec         : HTTP requests arrive on /stream; measure_time_ms = 0,  *)
(*                  so the window has length 0 and every frame is dropped  *)
(*                  by processLevelTrigger; the recorders are enabled;     *)
(*   SpecDetector : no client connects; the detector is configured, the    *)
(*                  device delivers quiet and full-scale frames and the    *)
(*                  clock advances; the callAction goroutines started do   *)
(*                  not get to run;                                        *)
(*   SpecActions  : as SpecDetector for one configuration and loud frames, *)
(*                  and the callAction goroutines issue their requests.    *)
(* The clock never goes back.  A write to a client fails from the moment   *)
(* its connection is closed.  The unlocked range over the map racing with  *)
(* a handler's insert or delete either ends the process or behaves as a    *)
(* Go range over a map that is modified meanwhile.                         *)
(***************************************************************************)
EXTENDS Integers, Sequences, FiniteSets, TLC

(* ---------------------------------------------------------------- bounds *)
MaxFrames  == 4      \* frames the capture device delivers
MaxTime    == 4      \* seconds the clock advances
MaxDepth   == 2      \* calls of the stream handler a goroutine's stack has room for

(* ------------------------------------------------------ program constants *)
sampleRate   == 44100
samplesCount == 128
MaxInt16     == 32767
chanEndCap   == 1

\* the methods of the requests for /stream
Methods == {"GET", "POST"}
\* the requests that may arrive on /stream
Requests == {"A", "B"}
\* the checkLevels goroutines that may exist at once
EvalIds  == {"e1", "e2"}

(* Frames the device may deliver: samplesCount samples each. *)
Patterns == {"quiet", "loud", "min"}
FrameSamples(p) ==
    [i \in 0..(samplesCount - 1) |->
        IF p = "loud" THEN MaxInt16 ELSE IF p = "min" THEN -(MaxInt16 + 1) ELSE 0]

\* The devices of the detector's runs: what each can deliver.
Devices == {{"quiet", "loud"}, {"quiet", "min"}}

\* the entries of config.Actions, and what can become of one request
ActionNames == {"a1", "a2"}
Outcomes == {"ok", "neterr", "status"}

(* Configurations read by readConfig. level is the rational LevelNum/LevelDen. *)
DetectorConfigs ==
    { [MeasureTime |-> mt, LevelNum |-> 1, LevelDen |-> 2, TriggerPauseSec |-> ps,
       DebugWav |-> FALSE, DebugMp3 |-> FALSE, Actions |-> ActionNames] :
      mt \in {1, 29}, ps \in {0, 2} }
ActionConfigs ==
    { [MeasureTime |-> 29, LevelNum |-> 1, LevelDen |-> 2, TriggerPauseSec |-> 2,
       DebugWav |-> FALSE, DebugMp3 |-> FALSE, Actions |-> ActionNames] }
StreamConfigs ==
    { [MeasureTime |-> 0, LevelNum |-> 1, LevelDen |-> 2, TriggerPauseSec |-> 2,
       DebugWav |-> TRUE, DebugMp3 |-> TRUE, Actions |-> ActionNames] }

VARIABLES
    config,             \* Config, set by readConfig
    measSampleCount,    \* readConfig
    samplesLevels,      \* the window buffer; index k of the slice is k+1 here
    samplesBufferCount, \* the fill count
    triggerTimestamp,   \* the time of the last fire
    mutexBuff,          \* "free", "loop" or the checkLevels goroutine holding it
    mutexClients,       \* "free" or the request whose handler holds it
    clientRequest,      \* the keys of the map
    chanEnd,            \* per request: values buffered in its client's chanEnd
    pcLoop,             \* position of startBabymonitor
    err,                \* the named result err of startBabymonitor
    recSeq,             \* the last frame written to the debug recorders
    detSeq,             \* the last frame passed to processLevelTrigger
    framesPerBuffer,    \* the pattern of the frame last read
    frameSeq,           \* number of frames read so far
    iterBase,           \* keys of the map when the current range loop began
    visited,            \* keys the current range loop has produced
    cur,                \* the client the loop is sending an end-signal to, or "none"
    stopReq,            \* a signal or the Esc key is pending
    accepting,          \* the HTTP server accepts connections
    recOpen,            \* the debug recorders that are open
    fatal,              \* the runtime has ended the process
    pcH,                \* per request: position of its handler
    broken,             \* per request: the connection is closed, writes fail
    written,            \* per request: frames passed to writeDataClient
    regAt,              \* per request: frames read when it was registered
    evalPc,             \* per checkLevels goroutine: its position
    evalSum,            \* per checkLevels goroutine: its summed amplitude
    evalT,              \* per checkLevels goroutine: its local t (line 426)
    now,                \* time.Now().Unix()
    fireTimes,          \* times of the last two fires
    acceptedSum,        \* |sample| summed over the frames copied since the reset
    lastCall,           \* what the last processLevelTrigger did with its frame
    actPending,         \* per action: callAction goroutines that have not returned
    actSent,            \* per action: requests issued by client.Do
    actFailed,          \* per action: requests that ended in an error or a status >= 400
    fireCount,          \* number of fires so far
    depth,              \* per request: calls of the stream handler on its stack
    device              \* the frames the capture device can deliver

detVars  == <<measSampleCount, samplesLevels, samplesBufferCount,
              triggerTimestamp, mutexBuff, evalPc, evalSum, evalT,
              fireTimes, acceptedSum, lastCall>>
loopVars == <<pcLoop, err, recSeq, detSeq, framesPerBuffer, frameSeq, iterBase, visited, cur,
              accepting, recOpen>>
regVars  == <<mutexClients, clientRequest, chanEnd, pcH, broken, written,
              regAt>>
callVars == <<actPending, actSent, actFailed, fireCount>>
vars == <<config, device, callVars, depth, detVars, loopVars, regVars, stopReq, fatal, now>>

(* ------------------------------------------------------------- helpers *)
\* A Go int16 after arithmetic: two's complement wrap-around.
Int16(x) == ((x + 32768) % 65536) - 32768

\* lines 419-421 (and abs, 131-136): if v < 0 { v = -v } on an int16
AbsSample(v) == IF v < 0 THEN Int16(-v) ELSE v

RECURSIVE SumRange(_, _, _)
\* the sum of the amplitudes of s[lo..hi], by halves
SumRange(s, lo, hi) ==
    IF lo > hi THEN 0
    ELSE IF lo = hi THEN AbsSample(s[lo])
    ELSE LET mid == (lo + hi) \div 2
         IN  SumRange(s, lo, mid) + SumRange(s, mid + 1, hi)

\* lines 418-423: the sum of the amplitudes of the whole slice
SumAbs(s) == SumRange(s, 1, Len(s))

\* line 125: the length readConfig gives the window buffer
BufferLen(msc) == (msc \div samplesCount) + (msc % samplesCount)

\* line 124
MeasSampleCount(mt) == (mt * sampleRate) \div 1000

\* the process is alive: not crashed and startBabymonitor has not returned
Running == ~fatal /\ pcLoop # "done"

(* ---------------------------------------------------------------- Init *)
InitWith(cfgs, devs) ==
    /\ config \in cfgs
    /\ device \in devs
    /\ now = 0
    /\ measSampleCount = MeasSampleCount(config.MeasureTime)
    /\ samplesLevels = [k \in 1..BufferLen(measSampleCount) |-> 0]
    /\ samplesBufferCount = 0
    /\ triggerTimestamp = now - config.TriggerPauseSec
    /\ mutexBuff = "free"
    /\ mutexClients = "free"
    /\ clientRequest = {}
    /\ chanEnd = [r \in Requests |-> 0]
    /\ pcLoop = "read"
    /\ err = "nil"
    /\ recSeq = 0
    /\ detSeq = 0
    /\ framesPerBuffer = "quiet"
    /\ frameSeq = 0
    /\ iterBase = {}
    /\ visited = {}
    /\ cur = "none"
    /\ stopReq = FALSE
    /\ accepting = TRUE
    /\ recOpen = {n \in {"wav", "mp3"} :
                    (n = "wav" /\ config.DebugWav) \/ (n = "mp3" /\ config.DebugMp3)}
    /\ fatal = FALSE
    /\ pcH = [r \in Requests |-> "idle"]
    /\ broken = [r \in Requests |-> FALSE]
    /\ written = [r \in Requests |-> <<>>]
    /\ regAt = [r \in Requests |-> 0]
    /\ evalPc = [s \in EvalIds |-> "idle"]
    /\ evalSum = [s \in EvalIds |-> 0]
    /\ evalT = [s \in EvalIds |-> 0]
    /\ fireTimes = <<>>
    /\ acceptedSum = 0
    /\ lastCall = "none"
    /\ actPending = [a \in ActionNames |-> 0]
    /\ actSent = [a \in ActionNames |-> 0]
    /\ actFailed = [a \in ActionNames |-> 0]
    /\ fireCount = 0
    /\ depth = [r \in Requests |-> 0]

Init == InitWith(StreamConfigs, {{"quiet"}})

InitDetector == InitWith(DetectorConfigs, Devices)

InitActions == InitWith(ActionConfigs, {{"loud"}})

(* ------------------------------------------------- the level trigger *)
\* len(samplesLevels)
Len0 == Len(samplesLevels)

BufferFullNever(count) == FALSE

\* line 395: the window is full
BufferFull(count) == count >= Len0

ShouldCheckAlways(count) == TRUE

ShouldCheckFrame(count) == count >= samplesCount

\* line 410: the frame just copied filled the window
ShouldCheck(count) == count >= Len0

\* lines 402-405: the buffer after copying frame p from slice index start;
\* an index beyond the buffer stops the copy (Go panics there).
CopyFrame(buf, start, p) ==
    [k \in 1..Len(buf) |->
        IF (k - 1) >= start /\ (k - 1) < start + samplesCount
        THEN FrameSamples(p)[k - 1 - start]
        ELSE buf[k]]

\* lines 403-404: some index start+i is out of range
CopyPanics(buf, start) == start + (samplesCount - 1) >= Len(buf)

\* line 428, first conjunct: mean >= config.LevelTrigger.Level, where
\* mean = (sum / MaxInt16) / len, compared exactly (cross-multiplied).  With
\* len = 0 the mean is NaN and the comparison is false.
MeanAtLevel(sum) ==
    /\ Len0 > 0
    /\ sum * config.LevelDen >= config.LevelNum * MaxInt16 * Len0

CooldownIgnored(t) == TRUE

\* line 428-429, second conjunct: t >= config.TriggerPauseSec
CooldownElapsed(t) == t >= config.TriggerPauseSec

\* the magnitude of a sample as an integer, without the int16 width
Magnitude(v) == IF v < 0 THEN -v ELSE v

RECURSIVE SumMagnitude(_, _, _)
\* the magnitudes of the samples f[lo..hi] of a frame, summed by halves
SumMagnitude(f, lo, hi) ==
    IF lo > hi THEN 0
    ELSE IF lo = hi THEN Magnitude(f[lo])
    ELSE LET mid == (lo + hi) \div 2
         IN  SumMagnitude(f, lo, mid) + SumMagnitude(f, mid + 1, hi)

\* the magnitudes of the samples of one frame of pattern p
FrameMagnitude(p) == SumMagnitude(FrameSamples(p), 0, samplesCount - 1)

\* the checkLevels goroutines that do not exist yet
FreeEval == {s \in EvalIds : evalPc[s] = "idle"}

\* line 392: processLevelTrigger takes the detector lock
PLT_Lock ==
    /\ Running /\ pcLoop = "plt"
    /\ mutexBuff = "free"
    /\ mutexBuff' = "loop"
    /\ pcLoop' = "pltbody"
    /\ detSeq' = frameSeq
    /\ UNCHANGED <<config, device, callVars, depth, measSampleCount, samplesLevels, samplesBufferCount,
                   triggerTimestamp, evalPc, evalSum, evalT, fireTimes, acceptedSum, lastCall,
                   err, recSeq, framesPerBuffer, frameSeq, iterBase, visited, cur,
                   accepting, recOpen, regVars, stopReq, fatal, now>>

\* lines 395-413: the body of processLevelTrigger, and the deferred unlock
PLT_Body ==
    /\ Running /\ pcLoop = "pltbody"
    /\ mutexBuff' = "free"
    /\ IF BufferFull(samplesBufferCount)
       THEN \* lines 395-399: drop the frame
            /\ pcLoop' = "select"
            /\ lastCall' = "dropped"
            /\ UNCHANGED <<samplesLevels, samplesBufferCount, evalPc, fatal,
                           acceptedSum>>
       ELSE LET start == samplesBufferCount \div samplesCount
                count == samplesBufferCount + samplesCount
            IN  /\ samplesLevels' = CopyFrame(samplesLevels, start, framesPerBuffer)
                /\ IF CopyPanics(samplesLevels, start)
                   THEN \* index out of range: the panic ends the process
                        /\ fatal' = TRUE
                        /\ lastCall' = "panicked"
                        /\ UNCHANGED <<pcLoop, samplesBufferCount, evalPc,
                                       acceptedSum>>
                   ELSE /\ samplesBufferCount' = count
                        /\ pcLoop' = "select"
                        /\ fatal' = FALSE
                        /\ lastCall' = "copied"
                        /\ acceptedSum' = acceptedSum + FrameMagnitude(framesPerBuffer)
                        /\ IF ShouldCheck(count)
                           THEN \* line 411: go checkLevels()
                                /\ FreeEval # {}
                                /\ evalPc' = [evalPc EXCEPT
                                       ![CHOOSE s \in FreeEval : TRUE] = "mean"]
                           ELSE UNCHANGED evalPc
    /\ UNCHANGED <<config, device, callVars, depth, measSampleCount, triggerTimestamp,
                   evalSum, evalT, fireTimes,
                   err, recSeq, detSeq, framesPerBuffer, frameSeq, iterBase, visited, cur,
                   accepting, recOpen, regVars, stopReq, now>>

\* lines 417-424: checkLevels sums the window
CL_Mean(s) ==
    /\ Running /\ evalPc[s] = "mean"
    /\ evalSum' = [evalSum EXCEPT ![s] = SumAbs(samplesLevels)]
    /\ evalPc' = [evalPc EXCEPT ![s] = "test"]
    /\ UNCHANGED <<config, device, callVars, depth, measSampleCount, samplesLevels, samplesBufferCount,
                   triggerTimestamp, mutexBuff, evalT, fireTimes, acceptedSum, lastCall,
                   loopVars, regVars, stopReq, fatal, now>>

\* lines 426-429: the decision to fire
CL_Test(s) ==
    /\ Running /\ evalPc[s] = "test"
    /\ LET t == now - triggerTimestamp
       IN  /\ evalT' = [evalT EXCEPT ![s] = t]
           /\ IF MeanAtLevel(evalSum[s]) /\ CooldownElapsed(t)
              THEN evalPc' = [evalPc EXCEPT ![s] = "dispatch"]
              ELSE evalPc' = [evalPc EXCEPT ![s] = "lock"]
    /\ UNCHANGED <<config, device, callVars, depth, measSampleCount, samplesLevels, samplesBufferCount,
                   triggerTimestamp, mutexBuff, evalSum, fireTimes, acceptedSum, lastCall,
                   loopVars, regVars, stopReq, fatal, now>>

\* lines 430-433: the actions are dispatched (go callAction for each)
CL_Dispatch(s) ==
    /\ Running /\ evalPc[s] = "dispatch"
    /\ fireTimes' = IF Len(fireTimes) < 2 THEN Append(fireTimes, now)
                                          ELSE <<fireTimes[2], now>>
    /\ evalPc' = [evalPc EXCEPT ![s] = "stamp"]
    /\ actPending' = [a \in ActionNames |->
                         IF a \in config.Actions THEN actPending[a] + 1
                                                 ELSE actPending[a]]
    /\ fireCount' = fireCount + 1
    /\ UNCHANGED <<config, device, depth, actSent, actFailed, measSampleCount, samplesLevels, samplesBufferCount,
                   triggerTimestamp, mutexBuff, evalSum, evalT, acceptedSum, lastCall,
                   loopVars, regVars, stopReq, fatal, now>>

CallsAfterRetry(pending, outcome) ==
    IF outcome = "ok" THEN pending - 1 ELSE pending

\* lines 447-462: callAction returns whatever became of the request; the
\* goroutine ends
CallsAfter(pending, outcome) == pending - 1

\* lines 444-463: one callAction goroutine issues its request; the request
\* fails (line 447), is answered with a status >= 400 (line 455) or succeeds
CA_Do(a) ==
    /\ Running /\ actPending[a] > 0
    /\ \E o \in Outcomes :
          /\ actSent' = [actSent EXCEPT ![a] = @ + 1]
          /\ actFailed' = [actFailed EXCEPT ![a] = IF o = "ok" THEN @ ELSE @ + 1]
          /\ actPending' = [actPending EXCEPT ![a] = CallsAfter(@, o)]
    /\ UNCHANGED <<config, device, depth, fireCount, detVars, loopVars, regVars,
                   stopReq, fatal, now>>

\* line 435: triggerTimestamp = time.Now().Unix()
CL_Stamp(s) ==
    /\ Running /\ evalPc[s] = "stamp"
    /\ triggerTimestamp' = now
    /\ evalPc' = [evalPc EXCEPT ![s] = "lock"]
    /\ UNCHANGED <<config, device, callVars, depth, measSampleCount, samplesLevels, samplesBufferCount,
                   mutexBuff, evalSum, evalT, fireTimes, acceptedSum, lastCall,
                   loopVars, regVars, stopReq, fatal, now>>

\* line 438: checkLevels takes the detector lock
CL_Lock(s) ==
    /\ Running /\ evalPc[s] = "lock"
    /\ mutexBuff = "free"
    /\ mutexBuff' = s
    /\ evalPc' = [evalPc EXCEPT ![s] = "reset"]
    /\ UNCHANGED <<config, device, callVars, depth, measSampleCount, samplesLevels, samplesBufferCount,
                   triggerTimestamp, evalSum, evalT, fireTimes, acceptedSum, lastCall,
                   loopVars, regVars, stopReq, fatal, now>>

\* lines 439-442: the fill count is reset, the lock released, the goroutine ends
CL_Reset(s) ==
    /\ Running /\ evalPc[s] = "reset"
    /\ samplesBufferCount' = 0
    /\ mutexBuff' = "free"
    /\ evalPc' = [evalPc EXCEPT ![s] = "idle"]
    /\ evalSum' = [evalSum EXCEPT ![s] = 0]
    /\ evalT' = [evalT EXCEPT ![s] = 0]
    /\ acceptedSum' = 0
    /\ UNCHANGED <<config, device, callVars, depth, measSampleCount, samplesLevels,
                   triggerTimestamp, fireTimes, lastCall,
                   loopVars, regVars, stopReq, fatal, now>>

\* the clock read by time.Now().Unix() advances
Tick ==
    /\ Running
    /\ now < MaxTime
    /\ now' = now + 1
    /\ UNCHANGED <<config, device, callVars, depth, detVars, loopVars, regVars, stopReq, fatal>>

(* ------------------------------------------------- the capture loop *)
\* lines 240-246: stream.Read fills framesPerBuffer; a read error ends the
\* loop.
L_Read ==
    /\ Running /\ pcLoop = "read"
    /\ \/ /\ frameSeq < MaxFrames
          /\ \E p \in device : framesPerBuffer' = p
          /\ frameSeq' = frameSeq + 1
          /\ err' = "nil"
          /\ pcLoop' = "rec"
          /\ UNCHANGED iterBase
       \/ /\ err' = "read"
          /\ pcLoop' = "release"
          /\ iterBase' = clientRequest
          /\ UNCHANGED <<framesPerBuffer, frameSeq>>
    /\ UNCHANGED <<config, device, callVars, depth, detVars, recSeq, detSeq,
                   visited, cur, accepting, recOpen, regVars, stopReq, fatal, now>>

AfterRecordersDetector == "plt"

\* line 264: after the recorders the loop ranges over the clients
AfterRecorders == "bcast"

\* lines 248-262: the frame is written to the debug recorders that are
\* enabled; the results of the writes are not looked at.  Line 264: the range
\* over clientRequest begins.
L_Record ==
    /\ Running /\ pcLoop = "rec"
    /\ recSeq' = IF config.DebugWav \/ config.DebugMp3 THEN frameSeq ELSE recSeq
    /\ pcLoop' = AfterRecorders
    /\ iterBase' = clientRequest
    /\ UNCHANGED <<config, device, callVars, depth, detVars, err, detSeq,
                   framesPerBuffer, frameSeq, visited, cur, accepting, recOpen,
                   regVars, stopReq, fatal, now>>

\* Keys a range over the map still has to produce: those present since the
\* loop began.
MustVisit == (iterBase \cap clientRequest) \ visited

MayVisitAgain == clientRequest

\* Keys a range over the map can produce next: a key inserted since the loop
\* began may be produced or skipped, a key is produced once.
MayVisit  == clientRequest \ visited

\* lines 385-386: binary.Write to the client's encoder fails
WriteFails(c) == broken[c]

\* lines 265-266 and 384-386: the range loop produces client c and
\* writeDataClient writes the frame to its encoder
L_Write(c) ==
    /\ Running /\ pcLoop = "bcast"
    /\ c \in MayVisit
    /\ visited' = visited \cup {c}
    /\ written' = [written EXCEPT ![c] = Append(@, frameSeq)]
    /\ IF WriteFails(c)
       THEN pcLoop' = "send" /\ cur' = c
       ELSE UNCHANGED <<pcLoop, cur>>
    /\ UNCHANGED <<config, device, callVars, depth, detVars, err, recSeq, detSeq, framesPerBuffer, frameSeq, iterBase,
                   accepting, recOpen, mutexClients, clientRequest, chanEnd,
                   pcH, broken, regAt, stopReq, fatal, now>>

\* a send on chanEnd (capacity chanEndCap) can proceed
CanSend(c) == chanEnd[c] < chanEndCap

\* line 387: c.chanEnd <- true, after a failed write
L_Send ==
    /\ Running /\ pcLoop = "send"
    /\ CanSend(cur)
    /\ chanEnd' = [chanEnd EXCEPT ![cur] = @ + 1]
    /\ pcLoop' = "bcast"
    /\ cur' = "none"
    /\ UNCHANGED <<config, device, callVars, depth, detVars, err, recSeq, detSeq, framesPerBuffer, frameSeq, iterBase,
                   visited, accepting, recOpen, mutexClients,
                   clientRequest, pcH, broken, written, regAt, stopReq, fatal, now>>

\* line 267: the range loop over the clients ends
L_BcastEnd ==
    /\ Running /\ pcLoop = "bcast"
    /\ MustVisit = {}
    /\ pcLoop' = "plt"
    /\ iterBase' = {} /\ visited' = {}
    /\ UNCHANGED <<config, device, callVars, depth, detVars, err, recSeq, detSeq, framesPerBuffer, frameSeq, cur, accepting, recOpen, regVars, stopReq, fatal, now>>

\* lines 287-296: the select on sig and keyChan, with its default
L_Select ==
    /\ Running /\ pcLoop = "select"
    /\ IF stopReq
       THEN pcLoop' = "release" /\ stopReq' = FALSE
       ELSE pcLoop' = "read" /\ UNCHANGED stopReq
    /\ iterBase' = IF stopReq THEN clientRequest ELSE {}
    /\ UNCHANGED <<config, device, callVars, depth, detVars, err, recSeq, detSeq, framesPerBuffer, frameSeq, visited, cur,
                   accepting, recOpen, regVars, fatal, now>>

\* line 299: the range loop of the release produces client c
L_Release(c) ==
    /\ Running /\ pcLoop = "release"
    /\ c \in MayVisit
    /\ visited' = visited \cup {c}
    /\ pcLoop' = "relsend"
    /\ cur' = c
    /\ UNCHANGED <<config, device, callVars, depth, detVars, err, recSeq, detSeq, framesPerBuffer, frameSeq, iterBase,
                   accepting, recOpen, regVars, stopReq, fatal, now>>

\* line 300: client.chanEnd <- true
L_RelSend ==
    /\ Running /\ pcLoop = "relsend"
    /\ CanSend(cur)
    /\ chanEnd' = [chanEnd EXCEPT ![cur] = @ + 1]
    /\ pcLoop' = "release"
    /\ cur' = "none"
    /\ UNCHANGED <<config, device, callVars, depth, detVars, err, recSeq, detSeq, framesPerBuffer, frameSeq, iterBase,
                   visited, accepting, recOpen, mutexClients,
                   clientRequest, pcH, broken, written, regAt, stopReq, fatal, now>>

\* line 301: the release loop ends; line 308: httpSrv.Shutdown closes the
\* listeners
L_ShutdownBegin ==
    /\ Running /\ pcLoop = "release"
    /\ MustVisit = {}
    /\ accepting' = FALSE
    /\ pcLoop' = "shutdown"
    /\ iterBase' = {} /\ visited' = {}
    /\ UNCHANGED <<config, device, callVars, depth, detVars, err, recSeq, detSeq, framesPerBuffer, frameSeq, cur, recOpen, regVars, stopReq, fatal, now>>

\* a connection whose handler has not returned
Active(r) == pcH[r] \notin {"idle", "done"}

\* line 308: what httpSrv.Shutdown returns: nil, or the error of closing a
\* listener
ShutdownResults == {"nil", "shutdown"}

\* line 308: err = httpSrv.Shutdown(ctx)
AfterShutdown(old, e) == e

\* line 308: httpSrv.Shutdown, whose context is never cancelled, returns
\* once no connection is active; its result is assigned to err
L_ShutdownWait ==
    /\ Running /\ pcLoop = "shutdown"
    /\ \A r \in Requests : ~Active(r)
    /\ \E e \in ShutdownResults : err' = AfterShutdown(err, e)
    /\ pcLoop' = "cleanup"
    /\ UNCHANGED <<config, device, callVars, depth, detVars, recSeq, detSeq, framesPerBuffer, frameSeq, iterBase,
                   visited, cur, accepting, recOpen, regVars, stopReq, fatal, now>>

\* lines 310-320: stream.Stop, the recorders are closed, return
L_Cleanup ==
    /\ Running /\ pcLoop = "cleanup"
    /\ recOpen' = {}
    /\ pcLoop' = "done"
    /\ UNCHANGED <<config, device, callVars, depth, detVars, err, recSeq, detSeq, framesPerBuffer, frameSeq, iterBase,
                   visited, cur, accepting, regVars, stopReq, fatal, now>>

\* lines 161-162 and 210-229: SIGINT, SIGTERM or the Esc key
ReqStop ==
    /\ Running
    /\ ~stopReq
    /\ pcLoop \in {"read", "rec", "bcast", "send", "plt", "pltbody", "select"}
    /\ stopReq' = TRUE
    /\ UNCHANGED <<config, device, callVars, depth, detVars, loopVars, regVars, fatal, now>>

(* ------------------------------------------- the connection handlers *)
\* the capture loop is inside a range over clientRequest
Iterating == pcLoop \in {"bcast", "send", "release", "relsend"}

\* The map is written while the capture loop ranges over it without the
\* lock: the runtime may end the process ("concurrent map iteration and map
\* write") or go on.
RaceOutcomes == IF Iterating THEN BOOLEAN ELSE {FALSE}

\* lines 324-328: the handler http.DefaultServeMux has for a path
MuxHandler(path) == IF path = "/stream" THEN "streamHandler" ELSE "NotFound"

\* lines 343-363: a request for /stream arrives.  For a GET the client and
\* its chanEnd are made; any other method is handed to http.DefaultServeMux
\* (line 346).
H_Accept(r) ==
    /\ Running /\ accepting
    /\ pcH[r] = "idle"
    /\ \E m \in Methods :
          IF m = "GET"
          THEN pcH' = [pcH EXCEPT ![r] = "lock1"] /\ UNCHANGED depth
          ELSE pcH' = [pcH EXCEPT ![r] = "mux"] /\ depth' = [depth EXCEPT ![r] = 1]
    /\ UNCHANGED <<config, device, callVars, detVars, loopVars, mutexClients, clientRequest,
                   chanEnd, broken, written, regAt, stopReq, fatal, now>>

\* lines 344-348: http.DefaultServeMux.ServeHTTP(w, r) calls the handler the
\* mux has for the request's path.  For /stream that is the stream handler,
\* called with the same request, whose method is still not GET: it is at
\* line 346 again, one call deeper, until the stack is used up and the
\* runtime ends the process.  Any other handler would answer and return.
H_Default(r) ==
    /\ Running
    /\ pcH[r] = "mux"
    /\ IF MuxHandler("/stream") = "streamHandler"
       THEN IF depth[r] < MaxDepth
            THEN /\ depth' = [depth EXCEPT ![r] = @ + 1]
                 /\ UNCHANGED <<pcH, fatal>>
            ELSE /\ pcH' = [pcH EXCEPT ![r] = "overflow"]
                 /\ fatal' = TRUE
                 /\ UNCHANGED depth
       ELSE /\ pcH' = [pcH EXCEPT ![r] = "done"]
            /\ depth' = [depth EXCEPT ![r] = 0]
            /\ UNCHANGED fatal
    /\ UNCHANGED <<config, device, callVars, detVars, loopVars, mutexClients,
                   clientRequest, chanEnd, broken, written, regAt, stopReq, now>>

\* line 366 and line 376: mutexClients.Lock()
H_Lock(r) ==
    /\ Running
    /\ pcH[r] \in {"lock1", "lock2"}
    /\ mutexClients = "free"
    /\ mutexClients' = r
    /\ pcH' = [pcH EXCEPT ![r] = IF @ = "lock1" THEN "insert" ELSE "delete"]
    /\ UNCHANGED <<config, device, callVars, depth, detVars, loopVars, clientRequest,
                   chanEnd, broken, written, regAt, stopReq, fatal, now>>

\* lines 367-368: clientRequest[r] = c; mutexClients.Unlock()
H_Insert(r) ==
    /\ Running
    /\ pcH[r] = "insert"
    /\ clientRequest' = clientRequest \cup {r}
    /\ mutexClients' = "free"
    /\ pcH' = [pcH EXCEPT ![r] = "wait"]
    /\ regAt' = [regAt EXCEPT ![r] = frameSeq]
    /\ \E crash \in RaceOutcomes : fatal' = crash
    /\ UNCHANGED <<config, device, callVars, depth, detVars, loopVars, chanEnd, broken, written,
                   stopReq, now>>

\* line 374: <-clientRequest[r].chanEnd, the handler's one receive
H_Recv(r) ==
    /\ Running
    /\ pcH[r] = "wait"
    /\ chanEnd[r] > 0
    /\ chanEnd' = [chanEnd EXCEPT ![r] = @ - 1]
    /\ pcH' = [pcH EXCEPT ![r] = "lock2"]
    /\ UNCHANGED <<config, device, callVars, depth, detVars, loopVars, mutexClients, clientRequest,
                   broken, written, regAt, stopReq, fatal, now>>

MapDeleteAll(m, r) == {}

\* the map after delete(clientRequest, r)
MapDelete(m, r) == m \ {r}

\* lines 377-380: delete(clientRequest, r); mutexClients.Unlock(); return
H_Delete(r) ==
    /\ Running
    /\ pcH[r] = "delete"
    /\ clientRequest' = MapDelete(clientRequest, r)
    /\ mutexClients' = "free"
    /\ pcH' = [pcH EXCEPT ![r] = "done"]
    /\ regAt' = [regAt EXCEPT ![r] = 0]
    /\ \E crash \in RaceOutcomes : fatal' = crash
    /\ UNCHANGED <<config, device, callVars, depth, detVars, loopVars, chanEnd, broken, written,
                   stopReq, now>>

\* the peer closes the connection: later writes to it fail
Disconnect(r) ==
    /\ Running
    /\ Active(r) /\ ~broken[r]
    /\ broken' = [broken EXCEPT ![r] = TRUE]
    /\ UNCHANGED <<config, device, callVars, depth, detVars, loopVars, mutexClients, clientRequest,
                   chanEnd, pcH, written, regAt, stopReq, fatal, now>>

(* ------------------------------------------------------ specifications *)
LoopStep ==
    \/ L_Read
    \/ L_Record
    \/ \E c \in Requests : L_Write(c)
    \/ L_Send
    \/ L_BcastEnd
    \/ PLT_Lock
    \/ PLT_Body
    \/ L_Select
    \/ \E c \in Requests : L_Release(c)
    \/ L_RelSend
    \/ L_ShutdownBegin
    \/ L_ShutdownWait
    \/ L_Cleanup

HandlerStep(r) ==
    \/ H_Default(r)
    \/ H_Lock(r)
    \/ H_Insert(r)
    \/ H_Recv(r)
    \/ H_Delete(r)

EvalStep(s) ==
    \/ CL_Mean(s)
    \/ CL_Test(s)
    \/ CL_Dispatch(s)
    \/ CL_Stamp(s)
    \/ CL_Lock(s)
    \/ CL_Reset(s)

Next ==
    \/ LoopStep
    \/ \E r \in Requests : H_Accept(r) \/ HandlerStep(r) \/ Disconnect(r)
    \/ ReqStop

Spec == Init /\ [][Next]_vars

NextDetector ==
    \/ L_Read
    \/ L_Record
    \/ L_BcastEnd
    \/ PLT_Lock
    \/ PLT_Body
    \/ L_Select
    \/ L_ShutdownBegin
    \/ L_ShutdownWait
    \/ L_Cleanup
    \/ ReqStop
    \/ \E s \in EvalIds : EvalStep(s)
    \/ Tick

SpecDetector == InitDetector /\ [][NextDetector]_vars

NextActions ==
    \/ NextDetector
    \/ \E a \in ActionNames : CA_Do(a)

SpecActions == InitActions /\ [][NextActions]_vars

(* ---------------------------------------------------------------- claims *)
\* the last fire, when there was one
LastFire == fireTimes[Len(fireTimes)]

\* C1: checkLevels dispatches the actions only when the window mean is at
\* least the configured level and trigger_pause_sec has elapsed since the
\* last-fire timestamp; once a fire is complete the last-fire timestamp is
\* not older than that fire; and two fires are never less than
\* trigger_pause_sec apart.
C1_CooldownRespected ==
    /\ \A s \in EvalIds :
          evalPc[s] \in {"dispatch", "stamp"} =>
             /\ MeanAtLevel(SumAbs(samplesLevels))
             /\ evalT[s] >= config.TriggerPauseSec
             /\ now - triggerTimestamp >= evalT[s]
    /\ (fireTimes # <<>> /\ \A s \in EvalIds : evalPc[s] # "stamp") =>
          /\ triggerTimestamp >= LastFire
          /\ triggerTimestamp <= now
    /\ Len(fireTimes) = 2 =>
          fireTimes[2] - fireTimes[1] >= config.TriggerPauseSec

\* C1, witness: after a fire, a second window that meets the level was
\* evaluated before trigger_pause_sec had elapsed, and did not fire.
C1_SecondWindowSuppressed ==
    /\ Len(fireTimes) = 1
    /\ \E s \in EvalIds :
          /\ evalPc[s] = "lock"
          /\ MeanAtLevel(evalSum[s])
          /\ evalT[s] < config.TriggerPauseSec

\* C2: the fill count never exceeds the length of the window buffer.
C2_FillWithinCapacity == samplesBufferCount <= Len0

\* C3: a checkLevels goroutine is started in exactly the steps in which the
\* fill count goes from below the buffer length to the buffer length or
\* more, and one goroutine only is started in such a step.
C3_OneEvaluationPerFill ==
    [][ LET started == {s \in EvalIds : evalPc[s] = "idle" /\ evalPc'[s] # "idle"}
            filled  == ~BufferFull(samplesBufferCount)
                       /\ (BufferFull(samplesBufferCount))'
        IN  Cardinality(started) = IF filled THEN 1 ELSE 0 ]_vars

\* C3, witness: a frame has filled the window and its evaluation is running.
C3_EvaluationRunning ==
    /\ Len0 > 0
    /\ BufferFull(samplesBufferCount)
    /\ \E s \in EvalIds : evalPc[s] = "mean"

\* The end-signal send to client c can never complete: the buffer of
\* chanEnd is full and the one receiver, c's handler, is past its receive.
BlockedForEver(c) == ~CanSend(c) /\ pcH[c] # "wait"

\* C4: when the write to one client fails, the capture loop is not held for
\* ever in that client's writeDataClient while a healthy client, registered
\* since the iteration began, has not been written the frame.
C4_FailureIsolated ==
    ~ /\ pcLoop = "send"
      /\ BlockedForEver(cur)
      /\ \E b \in MustVisit : ~broken[b]

\* C5: the capture loop never has to wait at a send on a client's chanEnd,
\* after a failed write or in the release at shutdown.
C5_SignalNeverBlocks ==
    pcLoop \in {"send", "relsend"} => CanSend(cur)

\* C6: once the capture loop has left its release of the clients, no handler
\* is waiting for an end-signal that has not been sent (nothing sends one
\* after the release).
C6_NoHandlerLeftWaiting ==
    \A r \in Requests :
       ~ /\ pcLoop \in {"shutdown", "cleanup", "done"}
         /\ pcH[r] = "wait"
         /\ chanEnd[r] = 0

\* C7: the shutdown sequence is never held for ever at the end-signal send of
\* its release loop.
C7_ShutdownNeverBlocks ==
    pcLoop = "relsend" => ~BlockedForEver(cur)

\* C8: while the capture loop is inside a range over the registry (the
\* broadcast of a frame, or the release), no step inserts into or deletes
\* from the registry.
C8_NoMutationWhileIterating ==
    [][Iterating => clientRequest' = clientRequest]_vars

\* the frames in a sequence of frame numbers
Frames(w) == {w[i] : i \in 1..Len(w)}

\* the frames whose broadcast is over
Broadcast == IF pcLoop \in {"rec", "bcast", "send"} THEN frameSeq - 1 ELSE frameSeq

\* C9: a removal takes out of the registry the removed client only, and a
\* client in the registry (whichever other client has been removed) has been
\* written every frame read since it was registered and already broadcast.
C9_RemovalLeavesOthers ==
    /\ [][\A a \in Requests :
             (a \in clientRequest /\ a \notin clientRequest') =>
                 /\ clientRequest' = clientRequest \ {a}
                 /\ pcH[a] = "delete"]_vars
    /\ [](\A b \in clientRequest :
             \A f \in (regAt[b] + 1)..Broadcast : f \in Frames(written[b]))

\* C9, witness: A has been removed, and B, still registered and healthy, has
\* been written a frame read after A's removal (A is written every frame
\* broadcast while it is registered, and was not written the frame before).
C9_BServedAfterARemoved ==
    /\ pcH["A"] = "done" /\ written["A"] # <<>>
    /\ "B" \in clientRequest /\ ~broken["B"]
    /\ regAt["B"] < written["A"][1]
    /\ written["B"] # <<>>
    /\ written["B"][Len(written["B"])] >= written["A"][Len(written["A"])] + 2

\* C10: the frames written to a client are consecutive frames of the
\* capture, in order, each once; and between two broadcasts, two registered
\* clients that were both registered before the last frame was read were
\* both written that frame last.
C10_DeliveryInOrder ==
    /\ \A c \in Requests :
          /\ \A i \in 1..Len(written[c]) :
                written[c][i] >= 1 /\ written[c][i] <= frameSeq
          /\ \A i \in 1..(Len(written[c]) - 1) :
                written[c][i + 1] = written[c][i] + 1
    /\ \A a, b \in clientRequest :
          (~Iterating /\ regAt[a] < Broadcast /\ regAt[b] < Broadcast) =>
             /\ written[a] # <<>> /\ written[b] # <<>>
             /\ written[a][Len(written[a])] = Broadcast
             /\ written[b][Len(written[b])] = Broadcast

\* C10, witness: two registered clients have each been written the same three
\* frames.
C10_TwoClientsSameFrames ==
    /\ {"A", "B"} \subseteq clientRequest
    /\ Len(written["A"]) >= 3
    /\ written["A"] = written["B"]

\* C11: a request for /stream whose method is not GET is answered by the
\* default handling and its handler returns: no client is registered for it,
\* and its handling does not end with the stack used up and the process ended.
C11_NonGetRejected ==
    \A r \in Requests :
        /\ pcH[r] # "overflow"
        /\ depth[r] > 0 => r \notin clientRequest

\* C12: once stream.Read has failed, no further frame is read and err, the
\* result startBabymonitor returns, stays the read error through the
\* shutdown, whatever the later steps return.
C12_ReadErrorReported ==
    [][err = "read" => (err' = "read" /\ frameSeq' = frameSeq)]_vars

\* C13: every fire starts one callAction per configured action and each of
\* them issues one request, whatever becomes of it: the requests issued and
\* the calls still to issue theirs add up, for every action, to the number of
\* fires.  Once a fire is stamped the last-fire timestamp is not older than
\* it, whether or not its requests have been issued.  A step in which a
\* request fails changes neither the last-fire timestamp nor the number of
\* fires nor the calls and requests of the other actions.
C13_FireAndForget ==
    /\ [](\A a \in config.Actions :
             /\ actSent[a] + actPending[a] = fireCount
             /\ actFailed[a] <= actSent[a])
    /\ []((fireCount > 0 /\ \A s \in EvalIds : evalPc[s] # "stamp") =>
             triggerTimestamp >= LastFire)
    /\ [][actFailed' # actFailed =>
             /\ triggerTimestamp' = triggerTimestamp
             /\ fireCount' = fireCount
             /\ \A b \in ActionNames :
                   actFailed'[b] = actFailed[b] =>
                      /\ actPending'[b] = actPending[b]
                      /\ actSent'[b] = actSent[b]]_vars

\* C13, witness: after two fires, both requests of a1 have failed, a2 has
\* issued its first request, which succeeded, and has its second still to
\* issue, and the last-fire timestamp is that of the second fire.
C13_FailuresLeaveSiblings ==
    /\ fireCount = 2
    /\ actSent["a1"] = 2 /\ actFailed["a1"] = 2 /\ actPending["a1"] = 0
    /\ actSent["a2"] = 1 /\ actFailed["a2"] = 0 /\ actPending["a2"] = 1
    /\ \A s \in EvalIds : evalPc[s] = "idle"
    /\ triggerTimestamp = LastFire

RECURSIVE SameQuotient(_, _, _, _)
\* a/b = c/d for integers a, c and positive b, d, compared exactly by whole
\* part and remainder
SameQuotient(a, b, c, d) ==
    /\ a \div b = c \div d
    /\ IF a % b = 0 \/ c % d = 0
       THEN a % b = 0 /\ c % d = 0
       ELSE SameQuotient(b, a % b, d, c % d)

\* C14: when checkLevels has summed the window, its mean, the sum over
\* 32767 over len(samplesLevels), equals the summed magnitudes of the
\* samples of the frames copied since the last reset over 32767 over
\* measSampleCount = measure_time_ms * sampleRate / 1000.
C14_MeanOfAcceptedSamples ==
    \A s \in EvalIds :
        evalPc[s] = "test" =>
            SameQuotient(evalSum[s], Len0, acceptedSum, measSampleCount)

\* C15: when checkLevels has summed the window, of 16-bit samples that may
\* be -32768, the sum is between 0 and 32767 * len(samplesLevels), that is
\* the mean is in [0, 1].
C15_MeanInUnitInterval ==
    \A s \in EvalIds :
        evalPc[s] = "test" =>
            /\ evalSum[s] >= 0
            /\ evalSum[s] <= MaxInt16 * Len0

\* C16, as stated: the frame goes to the debug recorders, then to the level
\* trigger, then to the clients: no client has been written a frame that
\* processLevelTrigger has not been passed, and processLevelTrigger has been
\* passed no frame the recorders have not been written.
C16_DetectorBeforeClients ==
    /\ \A c \in Requests :
          written[c] # <<>> => written[c][Len(written[c])] <= detSeq
    /\ (config.DebugWav \/ config.DebugMp3) => detSeq <= recSeq

\* C16, amended: the frame goes to the debug recorders, then to the clients,
\* then to the level trigger: no client has been written, and
\* processLevelTrigger has not been passed, a frame the enabled recorders
\* have not been written; and every client in the registry that was
\* registered before the frame passed to processLevelTrigger was read has
\* been written that frame.
C16_RecordersClientsDetector ==
    /\ (config.DebugWav \/ config.DebugMp3) =>
          /\ detSeq <= recSeq
          /\ \A c \in Requests :
                written[c] # <<>> => written[c][Len(written[c])] <= recSeq
    /\ \A c \in clientRequest :
          regAt[c] < detSeq => detSeq \in Frames(written[c])

\* C16, witness: processLevelTrigger is being run on the second frame, which
\* the recorders and the registered client A have already been written.
C16_DetectorLast ==
    /\ pcLoop = "pltbody" /\ frameSeq = 2 /\ detSeq = 2 /\ recSeq = 2
    /\ "A" \in clientRequest /\ regAt["A"] < 2
    /\ written["A"] # <<>> /\ written["A"][Len(written["A"])] = 2

\* C17: a call of processLevelTrigger that finds the fill count at or above
\* len(samplesLevels) returns having dropped its frame: the buffer, the fill
\* count, the last-fire timestamp and the checkLevels goroutines are as
\* before.  Such a call does not wait on anything but the detector lock,
\* which, when it is taken, is held by a checkLevels at its last step, the
\* reset, which waits for nothing.
C17_DropOnFull ==
    /\ [][(pcLoop = "pltbody" /\ pcLoop' # "pltbody" /\
             samplesBufferCount >= Len(samplesLevels)) =>
                /\ pcLoop' = "select"
                /\ lastCall' = "dropped"
                /\ fatal' = fatal
                /\ UNCHANGED <<samplesLevels, samplesBufferCount,
                               triggerTimestamp, evalPc, acceptedSum>>]_vars
    /\ []((pcLoop = "plt" /\ samplesBufferCount >= Len(samplesLevels)) =>
             \/ mutexBuff = "free"
             \/ \E s \in EvalIds : mutexBuff = s /\ evalPc[s] = "reset")

\* C17, witness: with a window of 135 entries full after two frames and its
\* evaluation yet to sum it, the third frame has been dropped.
C17_FrameDropped ==
    /\ pcLoop = "select" /\ lastCall = "dropped" /\ frameSeq = 3
    /\ Len(samplesLevels) = 135 /\ samplesBufferCount = 256
    /\ \E s \in EvalIds : evalPc[s] = "mean"

\* C18: processLevelTrigger and checkLevels read and write the window
\* buffer, the fill count and the last-fire timestamp only while holding
\* mutexBuff: the capture loop holds it in the body of processLevelTrigger,
\* and a checkLevels holds it whenever its next step sums the buffer, reads
\* the timestamp, writes the timestamp or resets the count.  No handler holds
\* mutexClients while the detector lock is held by the task it runs in.
C18_DetectorStateUnderLock ==
    /\ (pcLoop = "pltbody" /\ ~fatal) => mutexBuff = "loop"
    /\ \A s \in EvalIds :
          evalPc[s] \in {"mean", "test", "stamp", "reset"} => mutexBuff = s
    /\ mutexClients \notin {"loop"} \cup EvalIds
    /\ mutexBuff \notin Requests

\* C19: at most one checkLevels exists at a time, and one exists only while
\* the fill count is at or above len(samplesLevels); a step that changes the
\* window buffer is taken with no checkLevels in existence and the fill count
\* below len(samplesLevels), and changes no timestamp; a step that changes
\* the last-fire timestamp is taken by the one checkLevels; and the step
\* that takes the fill count back to 0 is the last of its checkLevels.
C19_EvaluationAlone ==
    /\ [](Cardinality({s \in EvalIds : evalPc[s] # "idle"}) <= 1)
    /\ [](\A s \in EvalIds :
             evalPc[s] # "idle" => samplesBufferCount >= Len(samplesLevels))
    /\ [][samplesLevels' # samplesLevels =>
             /\ \A s \in EvalIds : evalPc[s] = "idle"
             /\ samplesBufferCount < Len(samplesLevels)
             /\ pcLoop = "pltbody"
             /\ triggerTimestamp' = triggerTimestamp]_vars
    /\ [][triggerTimestamp' # triggerTimestamp =>
             \E s \in EvalIds : evalPc[s] = "stamp" /\ evalPc'[s] = "lock"]_vars
    /\ [][(samplesBufferCount' = 0 /\ samplesBufferCount # 0) =>
             \E s \in EvalIds : evalPc[s] = "reset" /\ evalPc'[s] = "idle"]_vars

\* C19, witness: a checkLevels has summed the full window and is about to
\* read the timestamp, while the capture loop is inside processLevelTrigger
\* with the next frame.
C19_LoopMeetsEvaluation ==
    /\ pcLoop = "pltbody" /\ frameSeq = 3
    /\ samplesBufferCount >= Len(samplesLevels) /\ Len(samplesLevels) > 0
    /\ \E s \in EvalIds : evalPc[s] = "test"

\* C20: whatever measure_time_ms >= 1 is configured, a frame that
\* processLevelTrigger copies fits the window buffer: when the body of
\* processLevelTrigger finds the fill count below len(samplesLevels), no
\* index start + i, i < 128, is out of range, and the copy does not end the
\* process.
C20_CopyWithinBuffer ==
    /\ (pcLoop = "pltbody" /\ ~fatal /\ config.MeasureTime >= 1 /\
          samplesBufferCount < Len(samplesLevels)) =>
             (samplesBufferCount \div samplesCount) + (samplesCount - 1)
                 < Len(samplesLevels)
    /\ lastCall # "panicked"

=============================================================================
